---- MODULE Spec2Model ----
(***************************************************************************)
(* A model of PopDensityLooker.py: zip-code normalisation                  *)
(* (format_zipcode), the page lookup (get_population_density), the single  *)
(* lookup path (main -> search_single_zipcode) and the batch path          *)
(* (process_csv_file).                                                     *)
(*                                                                         *)
(* Strings are sequences of one-character strings.  Python's None is the   *)
(* one-element sequence None, which no string of the model can equal.      *)
(* Rows and list positions are 1-based here (Python's i is i - 1).         *)
(***************************************************************************)
EXTENDS Integers, Sequences, FiniteSets, TLC

VARIABLES
    \* format_zipcode applied once and twice to an input
    nIn, nOnce, nTwice, npc,
    \* the text matching of get_population_density applied to a page
    ePage, eRes, epc,
    \* the single lookup path of main
    sIn, sDelay, spc, sArg, sReqs, sMsgs, sDensity,
    \* process_csv_file
    inCols, inRows, bpc, dfCols, dfRows, dfDensity, delay, idx, calls, log,
    success_count, not_found_count, outCols, outRows, bMsgs

normVars    == <<nIn, nOnce, nTwice, npc>>
extractVars == <<ePage, eRes, epc>>
singleVars  == <<sIn, sDelay, spc, sArg, sReqs, sMsgs, sDensity>>
batchVars   == <<inCols, inRows, bpc, dfCols, dfRows, dfDensity, delay, idx,
                 calls, log, success_count, not_found_count, outCols, outRows,
                 bMsgs>>
vars        == <<normVars, extractVars, singleVars, batchVars>>

----------------------------------------------------------------------------
(* Bounds of the model *)

\* longest input string drawn from every combination of Chars
MaxLen == 3
\* longest run of digits in a zip-shaped input
MaxRun == 6
\* longest page, in tokens
MaxPage == 5
\* most rows of an uploaded table
MaxRows == 2

----------------------------------------------------------------------------
(* Strings *)

None == <<"None">>

Digits == {"0", "1"}
Chars  == {"0", "1", "-", " ", "a", "+"}

RECURSIVE Rep(_, _)
Rep(c, n) == IF n = 0 THEN <<>> ELSE <<c>> \o Rep(c, n - 1)

\* the strings over alphabet A of length n or less
StringsUpTo(A, n) == UNION {[1..k -> A] : k \in 0..n}

\* str.strip(): leading and trailing whitespace removed
RECURSIVE LStrip(_)
LStrip(s) == IF s # <<>> /\ Head(s) = " " THEN LStrip(Tail(s)) ELSE s

RECURSIVE RStrip(_)
RStrip(s) ==
    IF s # <<>> /\ s[Len(s)] = " " THEN RStrip(SubSeq(s, 1, Len(s) - 1)) ELSE s

strip(s) == RStrip(LStrip(s))

\* position of the first c in s, 0 when there is none
FirstIndex(s, c) ==
    IF \E k \in 1..Len(s) : s[k] = c
    THEN CHOOSE k \in 1..Len(s) : s[k] = c /\ \A j \in 1..(k - 1) : s[j] # c
    ELSE 0

\* str.split(c): the list of the parts between the separators
RECURSIVE split(_, _)
split(s, c) ==
    LET k == FirstIndex(s, c)
    IN  IF k = 0 THEN <<s>>
        ELSE <<SubSeq(s, 1, k - 1)>> \o split(SubSeq(s, k + 1, Len(s)), c)

\* str.zfill(w): zeros on the left up to width w, after a leading sign
zfill(s, w) ==
    IF Len(s) >= w THEN s
    ELSE IF s # <<>> /\ Head(s) \in {"+", "-"}
         THEN <<Head(s)>> \o Rep("0", w - Len(s)) \o Tail(s)
         ELSE Rep("0", w - Len(s)) \o s

\* re.sub(r'\D', '', s): the digits of s, in order
RECURSIVE OnlyDigits(_)
OnlyDigits(s) ==
    IF s = <<>> THEN <<>>
    ELSE IF Head(s) \in Digits THEN <<Head(s)>> \o OnlyDigits(Tail(s))
         ELSE OnlyDigits(Tail(s))

AllDigits(s) == \A k \in 1..Len(s) : s[k] \in Digits

----------------------------------------------------------------------------
(* format_zipcode *)

\* the width the main part of a zip code is padded to
ZipWidth == 5
\* the digit count that gets a leading zero
ShortZip == 4

format_zipcode(zip_code) ==
    LET zip_str == strip(zip_code)
    IN  IF FirstIndex(zip_str, "-") # 0
        THEN LET parts    == split(zip_str, "-")
                 main_zip == zfill(parts[1], ZipWidth)
             IN  IF Len(parts) > 1
                 THEN main_zip \o <<"-">> \o parts[2]
                 ELSE main_zip
        ELSE LET zip_digits == OnlyDigits(zip_str)
             IN  IF Len(zip_digits) = ShortZip THEN zfill(zip_digits, ZipWidth)
                 ELSE IF Len(zip_digits) = ZipWidth THEN zip_digits
                 ELSE zip_str

----------------------------------------------------------------------------
(* The inputs a caller can supply *)

ZipShaped ==
    {Rep(" ", l) \o Rep("1", a) \o t \o Rep(" ", r) :
        l \in 0..1, r \in 0..1, a \in 0..MaxRun,
        t \in {<<>>} \cup {<<"-">> \o Rep("1", b) : b \in 0..MaxRun}}

Inputs == StringsUpTo(Chars, MaxLen) \cup ZipShaped

----------------------------------------------------------------------------
(* get_population_density: the text matching *)

(* A page is a sequence of tokens.  "P1" stands for the text                *)
(* 'population density of ', "P2" for ' people per square mile', "A1" for   *)
(* a label cell 'Population Density</td><td>' (whatever whitespace and      *)
(* attributes alt_pattern admits), "1" for a digit, "," and "." for         *)
(* themselves and "x" for any other text.                                   *)
PageTokens == {"P1", "P2", "A1", "1", ",", ".", "x"}

Pages == StringsUpTo(PageTokens, MaxPage)

\* [\d,]+(?:\.\d+)? , matched against the whole of g
MatchesNumber(g) ==
    \E n \in 1..Len(g) :
        /\ \A k \in 1..n : g[k] \in {"1", ","}
        /\ \/ n = Len(g)
           \/ /\ Len(g) >= n + 2
              /\ g[n + 1] = "."
              /\ \A k \in (n + 2)..Len(g) : g[k] = "1"

\* the places where pattern matches: p is at "P1", q at the "P2" closing it
PrimaryMatches(html) ==
    {pq \in (1..Len(html)) \X (1..Len(html)) :
        /\ pq[1] < pq[2]
        /\ html[pq[1]] = "P1"
        /\ html[pq[2]] = "P2"
        /\ MatchesNumber(SubSeq(html, pq[1] + 1, pq[2] - 1))}

\* re.search(pattern, html).group(1): the leftmost match's number, as text
PrimaryGroup(html) ==
    LET m == CHOOSE pq \in PrimaryMatches(html) :
                 \A o \in PrimaryMatches(html) : pq[1] <= o[1]
    IN  SubSeq(html, m[1] + 1, m[2] - 1)

\* [\d,\.]+ is greedy: the longest run of its characters from position k
RECURSIVE NumRun(_, _)
NumRun(html, k) ==
    IF k <= Len(html) /\ html[k] \in {"1", ",", "."}
    THEN <<html[k]>> \o NumRun(html, k + 1)
    ELSE <<>>

AltMatches(html) ==
    {p \in 1..Len(html) : html[p] = "A1" /\ NumRun(html, p + 1) # <<>>}

\* re.search(alt_pattern, html).group(1)
AltGroup(html) ==
    LET p == CHOOSE p \in AltMatches(html) : \A o \in AltMatches(html) : p <= o
    IN  NumRun(html, p + 1)

\* lines 70-82: what get_population_density returns for a page it has read
extract(html) ==
    IF PrimaryMatches(html) # {} THEN PrimaryGroup(html)
    ELSE IF AltMatches(html) # {} THEN AltGroup(html)
    ELSE None

----------------------------------------------------------------------------
(* get_population_density: the request and its outcomes *)

HttpNotFound == 404
\* the other statuses the server is taken to answer with
OtherHttpCodes == {500}

Failure(kind, code) == [kind |-> kind, code |-> code, page |-> <<>>]
Success(page) == [kind |-> "page", code |-> 200, page |-> page]

\* what urlopen can do: raise HTTPError (404 or another status), URLError,
\* any other exception (a socket timeout while reading, ...), or return a page
FailureOutcomes ==
    {Failure("http", c) : c \in {HttpNotFound} \cup OtherHttpCodes}
        \cup {Failure("urlerror", 0), Failure("exception", 0)}

\* the pages the server is taken to answer with: the sentence, the label
\* cell, and neither
ServedPages == {<<"P1", "1", ",", "1", "P2">>, <<"A1", "1", ".", "1">>, <<"x">>}

Outcomes == FailureOutcomes \cup {Success(p) : p \in ServedPages}

\* the warning each except clause shows
Warning(outcome) ==
    IF outcome.kind = "http"
    THEN IF outcome.code = HttpNotFound THEN "not found (404 error)"
         ELSE "HTTP Error"
    ELSE IF outcome.kind = "urlerror" THEN "URL Error"
    ELSE IF outcome.kind = "exception" THEN "Error"
    ELSE "none"

\* the zip code in the URL, the value returned and the warning shown, when
\* urlopen behaves as outcome says
get_population_density(zip_code, outcome) ==
    LET formatted_zip == format_zipcode(zip_code)
    IN  [url     |-> formatted_zip,
         ret     |-> IF outcome.kind = "page" THEN extract(outcome.page) ELSE None,
         warning |-> Warning(outcome)]

\* Python's truth of the returned value: None and '' are false
Truthy(v) == v # None /\ v # <<>>

----------------------------------------------------------------------------
(* The states in which a part of the program is not running *)

NormOff ==
    /\ nIn = <<>> /\ nOnce = None /\ nTwice = None /\ npc = "off"

ExtractOff ==
    /\ ePage = <<>> /\ eRes = None /\ epc = "off"

SingleOff ==
    /\ sIn = <<>> /\ sDelay = 0 /\ spc = "off" /\ sArg = None
    /\ sReqs = <<>> /\ sMsgs = <<>> /\ sDensity = None

BatchOff ==
    /\ inCols = <<>> /\ inRows = <<>> /\ bpc = "off" /\ dfCols = <<>>
    /\ dfRows = <<>> /\ dfDensity = None /\ delay = 0 /\ idx = 0
    /\ calls = <<>> /\ log = <<>> /\ success_count = 0 /\ not_found_count = 0
    /\ outCols = <<>> /\ outRows = <<>> /\ bMsgs = <<>>

----------------------------------------------------------------------------
(* format_zipcode, applied to an input and to its own result *)

NormInit ==
    /\ nIn \in Inputs /\ nOnce = None /\ nTwice = None /\ npc = "start"
    /\ ExtractOff /\ SingleOff /\ BatchOff

NormOnce ==
    /\ npc = "start"
    /\ nOnce' = format_zipcode(nIn)
    /\ npc' = "once"
    /\ UNCHANGED <<nIn, nTwice, extractVars, singleVars, batchVars>>

NormTwice ==
    /\ npc = "once"
    /\ nTwice' = format_zipcode(nOnce)
    /\ npc' = "twice"
    /\ UNCHANGED <<nIn, nOnce, extractVars, singleVars, batchVars>>

NormNext == NormOnce \/ NormTwice

SpecNorm == NormInit /\ [][NormNext]_vars

----------------------------------------------------------------------------
(* The text matching, applied to a page *)

ExtractInit ==
    /\ ePage \in Pages /\ eRes = None /\ epc = "start"
    /\ NormOff /\ SingleOff /\ BatchOff

ExtractPage ==
    /\ epc = "start"
    /\ eRes' = extract(ePage)
    /\ epc' = "done"
    /\ UNCHANGED <<ePage, normVars, singleVars, batchVars>>

ExtractNext == ExtractPage

SpecExtract == ExtractInit /\ [][ExtractNext]_vars

----------------------------------------------------------------------------
(* main, the "Search" button: main -> search_single_zipcode ->              *)
(* get_population_density                                                   *)

\* re.match(r'^\d{4,5}(-\d{4})?$', s).  The input is one line of text, so
\* the '$' that also matches before a final newline is the end of s.
MainPattern_Loose(s) ==
    \E n \in {3, 4, 5} :
        /\ Len(s) >= n
        /\ AllDigits(SubSeq(s, 1, n))
        /\ \/ Len(s) = n
           \/ /\ Len(s) = n + 5
              /\ s[n + 1] = "-"
              /\ AllDigits(SubSeq(s, n + 2, n + 5))

MainPattern(s) ==
    \E n \in {4, 5} :
        /\ Len(s) >= n
        /\ AllDigits(SubSeq(s, 1, n))
        /\ \/ Len(s) = n
           \/ /\ Len(s) = n + 5
              /\ s[n + 1] = "-"
              /\ AllDigits(SubSeq(s, n + 2, n + 5))

\* the slider of the single lookup: 0.0 to 3.0 in steps of 0.5, in half seconds
SingleSliderValues == 0..6

SingleInit ==
    /\ sIn \in Inputs /\ sDelay = 0 /\ spc = "form" /\ sArg = None
    /\ sReqs = <<>> /\ sMsgs = <<>> /\ sDensity = None
    /\ NormOff /\ ExtractOff /\ BatchOff

\* lines 260-268: the button's handler up to the call of search_single_zipcode
MainSearch ==
    /\ spc = "form"
    /\ \E d \in SingleSliderValues :
        IF sIn # <<>>
        THEN IF MainPattern(strip(sIn))
             THEN /\ spc' = "search"
                  /\ sDelay' = d
                  /\ UNCHANGED sMsgs
             ELSE /\ spc' = "done"
                  /\ sMsgs' = Append(sMsgs, "error: enter a valid zip code")
                  /\ UNCHANGED sDelay
        ELSE /\ spc' = "done"
             /\ sMsgs' = Append(sMsgs, "warning: enter a zip code")
             /\ UNCHANGED sDelay
    /\ UNCHANGED <<sIn, sArg, sReqs, sDensity, normVars, extractVars, batchVars>>

\* lines 97-109: search_single_zipcode up to the end of its sleep
search_single_zipcode ==
    /\ spc = "search"
    /\ LET formatted_zip == format_zipcode(sIn)
       IN  /\ sArg' = formatted_zip
           /\ sMsgs' = IF strip(sIn) # formatted_zip
                       THEN Append(sMsgs, "info: formatted")
                       ELSE sMsgs
    /\ spc' = "lookup"
    /\ UNCHANGED <<sIn, sDelay, sReqs, sDensity, normVars, extractVars, batchVars>>

\* lines 112-138: the lookup and the display of its result
SingleLookup ==
    /\ spc = "lookup"
    /\ \E outcome \in Outcomes :
        LET r == get_population_density(sArg, outcome)
        IN  /\ sReqs' = Append(sReqs, r.url)
            /\ sDensity' = r.ret
            /\ sMsgs' = (IF r.warning # "none"
                         THEN Append(sMsgs, r.warning) ELSE sMsgs)
                        \o <<IF Truthy(r.ret) THEN "success" ELSE "error: could not find">>
    /\ spc' = "done"
    /\ UNCHANGED <<sIn, sDelay, sArg, normVars, extractVars, batchVars>>

SingleNext == MainSearch \/ search_single_zipcode \/ SingleLookup

SpecSingle == SingleInit /\ [][SingleNext]_vars

----------------------------------------------------------------------------
(* process_csv_file *)

(* A table is a sequence of column names and a sequence of rows, each row   *)
(* a sequence of cells, one per column.  Cells are the text read_csv hands  *)
(* over; its inference of numbers and of missing values is not modelled.    *)

\* str.lower() on the column names of the model
Lower(name) ==
    CASE name = "ZipCode" -> "zipcode"
      [] name = "City"    -> "city"
      [] OTHER            -> name

Headers == {<<"ZipCode", "City">>, <<"City", "zipcode">>, <<"City">>}

\* the zip codes of the uploaded rows: short, ZIP+4, and malformed
BatchZips == {Rep("1", 4), Rep("1", 5) \o <<"-">> \o Rep("1", 4), <<"1", "a">>}

\* the cell of column name in row i of an uploaded table
CellChoices(name, i) ==
    IF Lower(name) = "zipcode" THEN BatchZips ELSE {Rep("a", i)}

RowChoices(cols, i) ==
    {row \in [1..Len(cols) -> BatchZips \cup {Rep("a", i)}] :
        \A c \in 1..Len(cols) : row[c] \in CellChoices(cols[c], i)}

Tables(cols) ==
    UNION {{rows \in [1..n -> UNION {RowChoices(cols, i) : i \in 1..n}] :
                \A i \in 1..n : rows[i] \in RowChoices(cols, i)} :
           n \in 1..MaxRows}

ColIndex(cols, name) == FirstIndex(cols, name)

\* the slider of the batch: 0.5 to 5.0 in steps of 0.5, in half seconds
SliderMin == 1
SliderMax == 10
SliderValues == SliderMin..SliderMax

NotFound == <<"Not Found">>

\* df.at[i, 'Population Density'] = v, on the index 0..N-1 read_csv gives
DfAtSet_First(col, i, v) == [col EXCEPT ![1] = v]

DfAtSet(col, i, v) == [col EXCEPT ![i] = v]

\* where the loop goes after the lookup of a row: get_population_density
\* catches every exception, so always on to the sleep
AfterFetch_Raise(outcome) == IF outcome.kind = "page" THEN "sleep" ELSE "crashed"

AfterFetch_Retry(outcome) == IF outcome.kind = "page" THEN "sleep" ELSE "fetch"

AfterFetch(outcome) == "sleep"

BatchInit ==
    /\ inCols \in Headers
    /\ inRows \in Tables(inCols)
    /\ bpc = "uploaded" /\ dfCols = <<>> /\ dfRows = <<>> /\ dfDensity = None
    /\ delay = 0 /\ idx = 0 /\ calls = <<>> /\ log = <<>>
    /\ success_count = 0 /\ not_found_count = 0
    /\ outCols = <<>> /\ outRows = <<>> /\ bMsgs = <<>>
    /\ NormOff /\ ExtractOff /\ SingleOff

\* lines 143-153: the table is read, its column names lowered, and, when
\* there is a zipcode column, its cells formatted
ReadCsv ==
    /\ bpc = "uploaded"
    /\ LET columns == [c \in 1..Len(inCols) |-> Lower(inCols[c])]
           z       == ColIndex(columns, "zipcode")
       IN  /\ dfCols' = columns
           /\ IF z = 0
              THEN /\ bMsgs' = Append(bMsgs, "error: no ZipCode column")
                   /\ dfRows' = inRows
                   /\ bpc' = "rejected"
              ELSE /\ dfRows' = [i \in 1..Len(inRows) |->
                                    [inRows[i] EXCEPT ![z] = format_zipcode(@)]]
                   /\ bpc' = "ready"
                   /\ UNCHANGED bMsgs
    /\ UNCHANGED <<inCols, inRows, dfDensity, delay, idx, calls, log,
                   success_count, not_found_count, outCols, outRows,
                   normVars, extractVars, singleVars>>

\* lines 173-193: the button is pressed with the slider at d
ClickFind ==
    /\ bpc = "ready"
    /\ \E d \in SliderValues : delay' = d
    /\ dfDensity' = [i \in 1..Len(dfRows) |-> None]
    /\ success_count' = 0
    /\ not_found_count' = 0
    /\ idx' = 1
    /\ bpc' = "fetch"
    /\ UNCHANGED <<inCols, inRows, dfCols, dfRows, calls, log, outCols, outRows,
                   bMsgs, normVars, extractVars, singleVars>>

\* lines 196-209: the lookup of row idx and the entry of its result
FetchRow ==
    /\ bpc = "fetch"
    /\ \E outcome \in Outcomes :
        LET zip_code == dfRows[idx][ColIndex(dfCols, "zipcode")]
            r        == get_population_density(zip_code, outcome)
        IN  /\ calls' = Append(calls, [row |-> idx, arg |-> zip_code, url |-> r.url,
                                       cause |-> outcome, ret |-> r.ret])
            /\ bMsgs' = IF r.warning # "none" THEN Append(bMsgs, r.warning) ELSE bMsgs
            /\ IF Truthy(r.ret)
               THEN /\ dfDensity' = DfAtSet(dfDensity, idx, r.ret)
                    /\ success_count' = success_count + 1
                    /\ UNCHANGED not_found_count
               ELSE /\ dfDensity' = DfAtSet(dfDensity, idx, NotFound)
                    /\ not_found_count' = not_found_count + 1
                    /\ UNCHANGED success_count
            /\ bpc' = AfterFetch(outcome)
    /\ log' = Append(log, [ev |-> "fetch", row |-> idx, d |-> 0])
    /\ UNCHANGED <<inCols, inRows, dfCols, dfRows, delay, idx, outCols, outRows,
                   normVars, extractVars, singleVars>>

\* line 212, and the loop's step to the next row or out of the loop
SleepRow ==
    /\ bpc = "sleep"
    /\ log' = Append(log, [ev |-> "sleep", row |-> idx, d |-> delay])
    /\ IF idx < Len(dfRows)
       THEN idx' = idx + 1 /\ bpc' = "fetch"
       ELSE idx' = idx /\ bpc' = "stats"
    /\ UNCHANGED <<inCols, inRows, dfCols, dfRows, dfDensity, delay, calls,
                   success_count, not_found_count, outCols, outRows, bMsgs,
                   normVars, extractVars, singleVars>>

\* lines 214-230: the statistics, and the table written by to_csv
Finish ==
    /\ bpc = "stats"
    /\ outCols' = Append(dfCols, "Population Density")
    /\ outRows' = [i \in 1..Len(dfRows) |-> Append(dfRows[i], dfDensity[i])]
    /\ bpc' = "done"
    /\ UNCHANGED <<inCols, inRows, dfCols, dfRows, dfDensity, delay, idx, calls,
                   log, success_count, not_found_count, bMsgs,
                   normVars, extractVars, singleVars>>

Next == ReadCsv \/ ClickFind \/ FetchRow \/ SleepRow \/ Finish

Init == BatchInit

Spec == Init /\ [][Next]_vars

----------------------------------------------------------------------------
(* Properties *)

\* ^\d{n}(-\d{4})?$ for some n in widths
ZipShape(s, widths) ==
    \E n \in widths :
        /\ Len(s) >= n
        /\ \A k \in 1..n : s[k] \in Digits
        /\ \/ Len(s) = n
           \/ /\ Len(s) = n + 5
              /\ s[n + 1] = "-"
              /\ \A k \in (n + 2)..(n + 5) : s[k] \in Digits

\* ^\d{5}(-\d{4})?$
IsNormalizedZip(s) == ZipShape(s, {5})

\* ^\d{4,5}(-\d{4})?$
IsAcceptedInput(s) == ZipShape(s, {4, 5})

\* the rows of the uploaded table, and the column its zip codes are in
NRows == Len(inRows)
InZipCol == ColIndex([c \in 1..Len(inCols) |-> Lower(inCols[c])], "zipcode")
LoopOver == bpc \in {"stats", "done"}
CallsOfRow(i) == {k \in 1..Len(calls) : calls[k].row = i}

\* C1: in a batch, every zip code for which get_population_density issues a
\* request matches ^\d{5}(-\d{4})?$ (a row whose normalized zip code does not
\* match is flagged invalid and never fetched).
C1_BatchFetchesOnlyValidZips ==
    \A k \in 1..Len(calls) : IsNormalizedZip(calls[k].url)

\* C2: once the batch loop has finished, the result holds exactly one record
\* per input row, the record at position i is the outcome of looking up the
\* (normalized) zip code of input row i, and no row is left without a value.
C2_BatchResultAligned ==
    LoopOver =>
        /\ Len(dfDensity) = NRows
        /\ \A i \in 1..NRows :
            /\ dfDensity[i] # None
            /\ Cardinality(CallsOfRow(i)) = 1
            /\ \A k \in CallsOfRow(i) :
                /\ calls[k].arg = format_zipcode(inRows[i][InZipCol])
                /\ dfDensity[i] = IF Truthy(calls[k].ret) THEN calls[k].ret
                                  ELSE NotFound
        /\ bpc = "done" =>
            /\ Len(outRows) = NRows
            /\ \A i \in 1..NRows : outRows[i][Len(outCols)] = dfDensity[i]

\* C2 witness: a finished batch of two rows whose outcomes differ, each in
\* its own row.
C2_Witness ==
    /\ bpc = "done" /\ NRows = 2
    /\ dfDensity[1] = NotFound /\ dfDensity[2] = <<"1", ",", "1">>
    /\ calls[2].row = 2 /\ calls[2].ret = <<"1", ",", "1">>

\* C3: a failure while a record is processed (HTTP status, URL error, any
\* other exception, no pattern matching) never aborts the batch or skips a
\* later record: the loop goes on to the next row, and when it is over every
\* row has been looked up and holds a terminal outcome.
C3_BatchFailureIsolated ==
    /\ bpc # "crashed"
    /\ bpc = "fetch" => Len(calls) = idx - 1 /\ idx \in 1..NRows
    /\ bpc = "sleep" => Len(calls) = idx /\ idx \in 1..NRows
    /\ \A k \in 1..Len(calls) : calls[k].row = k
    /\ LoopOver =>
        /\ Len(calls) = NRows
        /\ \A i \in 1..NRows : dfDensity[i] # None

\* C3 witness: a finished batch whose first lookup failed in transport and
\* whose second found a density.
C3_Witness ==
    /\ bpc = "done" /\ NRows = 2
    /\ calls[1].cause.kind = "urlerror"
    /\ Truthy(calls[2].ret) /\ dfDensity[2] = calls[2].ret

\* C4: normalization is idempotent:
\* format_zipcode(format_zipcode(x)) = format_zipcode(x) for every input x.
C4_NormalizeIdempotent ==
    npc = "twice" => nTwice = nOnce

\* C5: format_zipcode prepends one '0' to an input that, stripped, is 4
\* digits or 4 digits-hyphen-4 digits, and returns every other input equal to
\* the stripped input.
C5_OnlyPaddedShapesChange ==
    npc # "start" =>
        nOnce = IF ZipShape(strip(nIn), {4}) THEN <<"0">> \o strip(nIn)
                ELSE strip(nIn)

\* C6: the value get_population_density returns for an HTTP 404 differs from
\* the value it returns for any other HTTP status, transport error or
\* extraction miss.
C6_ReturnDistinguishes404 ==
    \A j, k \in 1..Len(calls) :
        /\ calls[j].cause = Failure("http", HttpNotFound)
        /\ calls[k].cause # Failure("http", HttpNotFound)
        /\ ~Truthy(calls[k].ret)
        => calls[j].ret # calls[k].ret

\* the number with its thousands separators removed
RECURSIVE WithoutSeparators(_)
WithoutSeparators(g) ==
    IF g = <<>> THEN <<>>
    ELSE IF Head(g) = "," THEN WithoutSeparators(Tail(g))
         ELSE <<Head(g)>> \o WithoutSeparators(Tail(g))

\* C7: when the primary pattern matches, the result is the number with its
\* thousands separators stripped; the fallback pattern decides only when the
\* primary does not match; when neither matches the result is nothing.
C7_ExtractYieldsNumber ==
    epc = "done" =>
        IF PrimaryMatches(ePage) # {}
        THEN eRes = WithoutSeparators(PrimaryGroup(ePage))
        ELSE IF AltMatches(ePage) # {} THEN eRes = AltGroup(ePage)
        ELSE eRes = None

\* C8: the table a batch produces is the input table plus the appended
\* 'Population Density' column: every original column with its original name
\* and original cells, rows in their original order.
C8_OutputIsInputPlusColumn ==
    bpc = "done" =>
        /\ outCols = Append(inCols, "Population Density")
        /\ Len(outRows) = NRows
        /\ \A i \in 1..NRows : \A c \in 1..Len(inCols) :
               outRows[i][c] = inRows[i][c]

\* C9: the batch loop issues its requests in input order, one per row, and
\* after the request of each row a delay of the configured duration, 0.5 to
\* 5 seconds, elapses before the next request: requests and delays alternate.
C9_SequentialRateLimited ==
    /\ \A k \in 1..Len(log) :
        IF k % 2 = 1
        THEN log[k].ev = "fetch" /\ log[k].row = (k + 1) \div 2
        ELSE /\ log[k].ev = "sleep" /\ log[k].row = k \div 2
             /\ log[k].d = delay /\ log[k].d >= 1 /\ log[k].d <= 10
    /\ bpc = "fetch" => Len(log) = 2 * (idx - 1)
    /\ LoopOver => Len(log) = 2 * NRows

\* C9 witness: a finished batch of two rows: request, delay, request, delay.
C9_Witness ==
    /\ bpc = "done" /\ NRows = 2 /\ Len(log) = 4
    /\ log[3].ev = "fetch" /\ log[3].row = 2 /\ log[4].d = 10
    /\ calls[1].cause.kind # "page"

\* C10: in the single lookup a request is issued only when the stripped
\* input matches ^\d{4,5}(-\d{4})?$, the zip code in its URL then matches
\* ^\d{5}(-\d{4})?$ and is the code search_single_zipcode formatted, unchanged
\* by the second formatting; any other input ends in a message and no request.
C10_SingleFetchOnlyValid ==
    /\ Len(sReqs) <= 1
    /\ \A k \in 1..Len(sReqs) :
        /\ IsAcceptedInput(strip(sIn))
        /\ IsNormalizedZip(sReqs[k])
        /\ sReqs[k] = sArg
    /\ spc \in {"search", "lookup"} => IsAcceptedInput(strip(sIn))
    /\ (spc = "done" /\ ~IsAcceptedInput(strip(sIn))) =>
        sReqs = <<>> /\ Len(sMsgs) = 1

\* C10 witness: a four-digit input with surrounding whitespace was padded
\* and requested.
C10_Witness ==
    /\ spc = "done" /\ sIn = <<" ", "1", "1", "1", "1">>
    /\ sReqs = <<<<"0", "1", "1", "1", "1">>>>

====
